---- MODULE Spec2Model ----
(***************************************************************************)
(* A model of the Crow Shepherd integration's hub (custom_components/      *)
(* hub.py), of the entry setup and migration around it (custom_components/ *)
(* __init__.py), of the config flow (custom_components/config_flow.py) and *)
(* of the platform entities (alarm_control_panel.py, switch.py,            *)
(* binary_sensor.py, sensor.py).                                           *)
(*                                                                         *)
(* The hub runs on one cooperative event loop.  A coroutine runs without   *)
(* interruption up to an await of the vendor client; every such await is a *)
(* step boundary of the model: one action runs a call up to the vendor     *)
(* request, a second action runs it from the vendor's answer to its return.*)
(***************************************************************************)
EXTENDS Integers, Sequences, FiniteSets, TLC

VARIABLES
    now,            \* the clock (utcnow()), in seconds
    throttle,       \* host._throttle[id(throttle)][1]: time of the last let-through call
    cache,          \* hub._devices, hub._measurements, hub._outputs, hub._areas
    pending,        \* vendor requests awaiting their answer, per operation
    entity,         \* the alarm entity: its _area record and its _state
    subscriptions,  \* hub._subscriptions: device id -> callback
    registry,       \* hass.data[DOMAIN]: the entry ids that hold a hub
    setup,          \* per config entry: where its setup stands and how it ended
    wsTasks,        \* per config entry: the ws_connect() tasks running
    configEntries,  \* the host's stored config entries: unique id, version, data
    flow,           \* the config flow in progress: its step and its fields
    entities,       \* per platform, the entities added: resolved id and record
    regLog,         \* observer: per device id, the callback last subscribed and not unsubscribed
    events,         \* observer: per config entry, what its current setup did, in order
    vendorLog,      \* observer: when the vendor was last asked, per collection
    lastGood,       \* observer: the last non-empty list the vendor answered, per collection
    fetchLog,       \* observer: how the last vendor fetch of a getter ended, where watched
    last            \* observer: what the last step did (call, result, exception)

cacheVars == <<now, throttle, cache, vendorLog, lastGood, fetchLog>>
alarmVars == <<entity>>
wsVars == <<subscriptions, regLog>>
setupVars == <<registry, setup, wsTasks, events>>
configVars == <<configEntries, flow>>
platformVars == <<entities>>
restVars == <<configVars, platformVars>>
vars == <<now, throttle, cache, pending, entity, subscriptions, registry, setup, wsTasks,
          configEntries, flow, entities, regLog, events, vendorLog, lastGood, fetchLog, last>>

----------------------------------------------------------------------------
(* Bounds of the model *)

\* the clock advances in steps of TickStep seconds
TickStep == 15
\* the clock stops after MaxTicks steps
MaxTicks == 5
\* at most MaxPending vendor requests are awaiting their answer
MaxPending == 1

----------------------------------------------------------------------------
(* Python values *)

None == [t |-> "None", v |-> <<>>]
List(s) == [t |-> "list", v |-> s]
EmptyList == List(<<>>)

\* bool(x) for None and for lists
Truthy(x) == x.t = "list" /\ Len(x.v) > 0

\* x or []
OrEmpty(x) == IF Truthy(x) THEN x ELSE EmptyList

\* what a vendor list request can answer: nothing, an empty list, a list of records
VendorLists == {None, EmptyList, List(<<1>>), List(<<1, 2>>)}

\* how a vendor request ends: "ok", a ResponseError, any other Exception
FetchOutcomes == {"ok", "ResponseError", "Exception"}

NoTime == 0 - 1

----------------------------------------------------------------------------
(* The throttled getters: hub.py 66-122 *)

Throttled == {"devices", "measurements", "outputs"}
Collections == Throttled \cup {"areas"}

\* @Throttle(timedelta(seconds=60)) and twice @Throttle(timedelta(seconds=30))
DevicesWindow == 60
MeasurementsWindow == 30
OutputsWindow == 30

WindowWrong(k) == 30

Window(k) ==
    CASE k = "devices" -> DevicesWindow
      [] k = "measurements" -> MeasurementsWindow
      [] k = "outputs" -> OutputsWindow

ThrottleKeyShared(k) == "devices"

\* Each @Throttle(...) is its own Throttle object; the wrapper keeps its state in
\* host._throttle[id(self)], the host being the hub: one slot per decorated method.
ThrottleKey(k) == k

\* a wrapper that lets the call after a failed fetch through
ThrottleOpenAfterFailure(k, t) ==
    \/ throttle[ThrottleKey(k)] = NoTime
    \/ t - throttle[ThrottleKey(k)] > Window(k)
    \/ fetchLog[k] = "failed"

\* homeassistant.util.Throttle, the wrapper's test:
\*   force = kwargs.pop("no_throttle", False) or not throttle[1]
\*   if force or utcnow() - throttle[1] > self.min_time: call the method
\* The wrapper's lock is taken and released within the (synchronous) wrapper,
\* so on one event loop it is always free.
ThrottleOpen(k, t) ==
    \/ throttle[ThrottleKey(k)] = NoTime
    \/ t - throttle[ThrottleKey(k)] > Window(k)

TryFetchNarrow(outcome, result) ==
    CASE outcome = "ok" -> [raised |-> FALSE, val |-> result]
      [] outcome = "ResponseError" -> [raised |-> FALSE, val |-> None]
      [] outcome = "Exception" -> [raised |-> TRUE, val |-> None]

\* _get_devices / _get_measurements / _get_outputs: the try block
\*   try: return await self.panel.get_zones()
\*   except ResponseError: return None
\*   except Exception: return None
TryFetch(outcome, result) ==
    CASE outcome = "ok" -> [raised |-> FALSE, val |-> result]
      [] outcome = "ResponseError" -> [raised |-> FALSE, val |-> None]
      [] outcome = "Exception" -> [raised |-> FALSE, val |-> None]

\* get_devices: if devices: self._devices = devices
CacheUpdate(old, fetched) == IF Truthy(fetched) THEN fetched ELSE old

NoCall == [op |-> "none"]

\* the operations that await the vendor
PendingOps == Collections \cup {"area", "set_area", "set_output", "arm", "update"}

RECURSIVE SumOver(_, _)
SumOver(f, S) ==
    IF S = {} THEN 0
    ELSE LET x == CHOOSE y \in S : TRUE IN f[x] + SumOver(f, S \ {x})

PendingTotal == SumOver(pending, PendingOps)

\* observer: the fetches of a getter are logged once the log is started for it
Logged(k, how) == IF fetchLog[k] = "unwatched" THEN fetchLog ELSE [fetchLog EXCEPT ![k] = how]

\* get_devices() / get_measurements() / get_outputs(), from the call to the await
\* of the vendor request; a throttled call awaits nothing and returns at once.
GetCall(k) ==
    /\ k \in Throttled
    /\ IF ThrottleOpen(k, now)
       THEN /\ PendingTotal < MaxPending
            /\ throttle' = [throttle EXCEPT ![ThrottleKey(k)] = now]
            /\ pending' = [pending EXCEPT ![k] = @ + 1]
            /\ vendorLog' = [vendorLog EXCEPT ![k] = now]
            /\ fetchLog' = Logged(k, "pending")
            /\ last' = [op |-> "get", kind |-> k, phase |-> "await", vendor |-> TRUE,
                        at |-> now, asked |-> vendorLog[k], prior |-> fetchLog[k]]
            /\ UNCHANGED <<restVars, now, cache, lastGood, alarmVars, wsVars, setupVars>>
       ELSE /\ last' = [op |-> "get", kind |-> k, phase |-> "return", vendor |-> FALSE,
                        at |-> now, asked |-> vendorLog[k], prior |-> fetchLog[k],
                        outcome |-> "throttled", got |-> None, pre |-> cache[k],
                        good |-> lastGood[k], raised |-> FALSE,
                        ret |-> OrEmpty(CacheUpdate(cache[k], None))]
            /\ cache' = [cache EXCEPT ![k] = CacheUpdate(@, None)]
            /\ UNCHANGED <<restVars, now, throttle, pending, vendorLog, lastGood, fetchLog,
                           alarmVars, wsVars, setupVars>>

\* observer: a call of the same getter that returned, throttled, in the step before
\* this one, that is while this call's vendor request was awaiting its answer
CalledDuring(k) ==
    IF last.op = "get" /\ last.kind = k /\ last.phase = "return" /\ ~last.vendor
    THEN [called |-> TRUE, ret |-> last.ret]
    ELSE [called |-> FALSE, ret |-> None]

\* the same call, from the vendor's answer to its return
GetReturn(k, outcome, result) ==
    /\ k \in Throttled
    /\ pending[k] > 0
    /\ outcome = "ok" \/ result = None
    /\ LET f == TryFetch(outcome, result)
           new == IF f.raised THEN cache[k] ELSE CacheUpdate(cache[k], f.val)
       IN /\ cache' = [cache EXCEPT ![k] = new]
          /\ last' = [op |-> "get", kind |-> k, phase |-> "return", vendor |-> TRUE,
                      at |-> now, asked |-> vendorLog[k], prior |-> fetchLog[k],
                      outcome |-> outcome, got |-> result, pre |-> cache[k],
                      good |-> lastGood[k], raised |-> f.raised,
                      ret |-> IF f.raised THEN None ELSE OrEmpty(new),
                      during |-> CalledDuring(k)]
    /\ lastGood' = IF outcome = "ok" /\ Truthy(result)
                   THEN [lastGood EXCEPT ![k] = result] ELSE lastGood
    /\ fetchLog' = Logged(k, IF outcome = "ok" THEN "ok" ELSE "failed")
    /\ pending' = [pending EXCEPT ![k] = @ - 1]
    /\ UNCHANGED <<restVars, now, throttle, vendorLog, alarmVars, wsVars, setupVars>>

\* time passes
Tick ==
    /\ now + TickStep <= MaxTicks * TickStep
    /\ now' = now + TickStep
    /\ last' = NoCall
    /\ UNCHANGED <<restVars, throttle, cache, pending, vendorLog, lastGood, fetchLog,
                   alarmVars, wsVars, setupVars>>


----------------------------------------------------------------------------
(* Areas and commands: hub.py 124-174, alarm_control_panel.py 33-39, 68-77, 149-195 *)

Dict(s) == [t |-> "dict", v |-> s]
EmptyDict == Dict(<<>>)
\* an area record {"id": id, "state": st}
AreaOf(id, st) == Dict(<<id, st>>)

\* bool(x) for None and for dicts
TruthyDict(x) == x.t = "dict" /\ Len(x.v) > 0

\* what the vendor can answer where one area record is expected
VendorAreas == {None, EmptyDict, AreaOf("a1", "armed"), AreaOf("a1", "disarmed")}

AreaIds == {"a1", "a2"}
OutputIds == {"o1"}

\* the status codes a ResponseError carries in the model
Statuses == {401, 403, 404, 408, 500}

\* how a vendor request ends, with the ResponseError's status_code
Outcomes ==
    {[exc |-> "ok", status |-> 0], [exc |-> "Exception", status |-> 0]}
    \cup {[exc |-> "ResponseError", status |-> s] : s \in Statuses}

\* dict.get(key, default)
DictGet(d, key, default) == IF key \in DOMAIN d THEN d[key] ELSE default

\* const.py
SET_STATE_MAP == [armed_home |-> "stay", armed_away |-> "arm", disarm |-> "disarm"]

\* _async_set_arm_state's api_command_map; AlarmControlPanelState is a string enum
api_command_map == [armed_home |-> "stay", armed_away |-> "arm", disarmed |-> "disarm"]

\* the host's desired states (AlarmControlPanelState values) and one string that is none
DesiredStates ==
    {"armed_home", "armed_away", "disarmed", "armed_night", "triggered", "disarm"}

HubTokenArmDefault(state) == DictGet(SET_STATE_MAP, state, "arm")

\* set_area_state: api_state = SET_STATE_MAP.get(state, "disarm")
HubToken(state) == DictGet(SET_STATE_MAP, state, "disarm")

\* _async_set_arm_state: api_command = api_command_map.get(state, "disarm")
EntityToken(state) == DictGet(api_command_map, state, "disarm")

\* async_alarm_disarm / async_alarm_arm_home / async_alarm_arm_away
EntityOps == {"async_alarm_disarm", "async_alarm_arm_home", "async_alarm_arm_away"}
EntityOpState(op) ==
    CASE op = "async_alarm_disarm" -> "disarmed"
      [] op = "async_alarm_arm_home" -> "armed_home"
      [] op = "async_alarm_arm_away" -> "armed_away"

HA_STATE_MAP ==
    [k \in {"armed", "arm in progress", "stay arm in progress", "stay_armed", "disarmed"} |->
        CASE k = "armed" -> "armed_away"
          [] k = "arm in progress" -> "arming"
          [] k = "stay arm in progress" -> "arming"
          [] k = "stay_armed" -> "armed_home"
          [] k = "disarmed" -> "disarmed"]

\* area.get("id")
AreaId(area) == IF Len(area.v) > 0 THEN area.v[1] ELSE "None"

\* area.get("state")
AreaState(area) == IF Len(area.v) > 1 THEN area.v[2] ELSE "None"

\* CrowShepherdAlarmControlPanel.__init__: HA_STATE_MAP.get(area.get("state"), DISARMED)
EntityState(area) == DictGet(HA_STATE_MAP, AreaState(area), "disarmed")

\* const.py STATE_MAP
STATE_MAP ==
    [k \in {"armed", "arm in progress", "stay arm in progress", "stay_armed", "disarmed"} |->
        CASE k = "armed" -> "armed_away"
          [] k = "arm in progress" -> "arming"
          [] k = "stay arm in progress" -> "arming"
          [] k = "stay_armed" -> "armed_home"
          [] k = "disarmed" -> "disarmed"]

map_alarm_stateUnknownArmed(api_state) == DictGet(STATE_MAP, api_state, "armed_away")

\* CrowHub.map_alarm_state: STATE_MAP.get(api_state, "disarmed")
map_alarm_state(api_state) == DictGet(STATE_MAP, api_state, "disarmed")

\* the state strings the vendor reports, one it does not document, and no state
ApiStates ==
    {"armed", "arm in progress", "stay arm in progress", "stay_armed", "disarmed",
     "triggered", "None"}

\* what panel.get_area answers to the entity's poll: nothing, a record, or a value
\* that is no record
PolledAreas ==
    {None, EmptyDict, Dict(<<"a1">>), List(<<1>>)}
        \cup {AreaOf("a1", st) : st \in ApiStates \ {"None"}}

UpdateResultForgets(old, area) == IF area # None /\ area.t = "dict" THEN area ELSE EmptyDict

\* async_update: if area is not None and isinstance(area, dict): self._area = area
UpdateResult(old, area) == IF area # None /\ area.t = "dict" THEN area ELSE old

GetAreasResultForgets(old, outcome, result) ==
    CASE outcome = "ok" -> [raised |-> FALSE, cache |-> result, ret |-> result]
      [] outcome = "ResponseError" -> [raised |-> FALSE, cache |-> None, ret |-> EmptyList]
      [] outcome = "Exception" -> [raised |-> FALSE, cache |-> None, ret |-> EmptyList]

\* get_areas: try: areas = await ...; self._areas = areas; return areas
\*            except ResponseError / except Exception: return self._areas or []
GetAreasResult(old, outcome, result) ==
    CASE outcome = "ok" -> [raised |-> FALSE, cache |-> result, ret |-> result]
      [] outcome = "ResponseError" -> [raised |-> FALSE, cache |-> old, ret |-> OrEmpty(old)]
      [] outcome = "Exception" -> [raised |-> FALSE, cache |-> old, ret |-> OrEmpty(old)]

\* get_area: try: return await ...; except ResponseError / except Exception: return None
GetAreaResult(outcome, result) ==
    CASE outcome = "ok" -> [raised |-> FALSE, ret |-> result]
      [] outcome = "ResponseError" -> [raised |-> FALSE, ret |-> None]
      [] outcome = "Exception" -> [raised |-> FALSE, ret |-> None]

\* the status set_area_state expects and ignores
ExpectedStatus == 408

SetAreaStateResultSwallows(outcome, result) ==
    CASE outcome.exc = "ok" -> [raised |-> FALSE, exc |-> "none", status |-> 0, ret |-> result]
      [] outcome.exc = "ResponseError" ->
            [raised |-> FALSE, exc |-> "none", status |-> 0, ret |-> None]
      [] outcome.exc = "Exception" ->
            [raised |-> TRUE, exc |-> "Exception", status |-> 0, ret |-> None]

\* set_area_state: try: return await ...
\*   except ResponseError as err: if err.status_code == 408: return None; raise
\*   except Exception: raise
SetAreaStateResult(outcome, result) ==
    CASE outcome.exc = "ok" -> [raised |-> FALSE, exc |-> "none", status |-> 0, ret |-> result]
      [] outcome.exc = "ResponseError" ->
            IF outcome.status = ExpectedStatus
            THEN [raised |-> FALSE, exc |-> "none", status |-> 0, ret |-> None]
            ELSE [raised |-> TRUE, exc |-> "ResponseError", status |-> outcome.status,
                  ret |-> None]
      [] outcome.exc = "Exception" ->
            [raised |-> TRUE, exc |-> "Exception", status |-> 0, ret |-> None]

SetOutputStateResultNarrow(outcome) ==
    CASE outcome.exc = "ok" -> [raised |-> FALSE, ret |-> TRUE]
      [] outcome.exc = "ResponseError" -> [raised |-> FALSE, ret |-> FALSE]
      [] outcome.exc = "Exception" -> [raised |-> TRUE, ret |-> FALSE]

\* set_output_state: try: await ...; return True
\*   except ResponseError: return False; except Exception: return False
SetOutputStateResult(outcome) ==
    CASE outcome.exc = "ok" -> [raised |-> FALSE, ret |-> TRUE]
      [] outcome.exc = "ResponseError" -> [raised |-> FALSE, ret |-> FALSE]
      [] outcome.exc = "Exception" -> [raised |-> FALSE, ret |-> FALSE]

\* _async_set_arm_state: try: area = await ...; if area: self._area = area
\*   except ResponseError: log; except Exception: log
ArmResult(old, outcome, result) ==
    CASE outcome.exc = "ok" ->
            [raised |-> FALSE, area |-> IF TruthyDict(result) THEN result ELSE old]
      [] outcome.exc = "ResponseError" -> [raised |-> FALSE, area |-> old]
      [] outcome.exc = "Exception" -> [raised |-> FALSE, area |-> old]

\* a vendor request is sent and awaited
Await(op) ==
    /\ PendingTotal < MaxPending
    /\ pending' = [pending EXCEPT ![op] = @ + 1]

\* the vendor's answer to a request of this operation arrives
Answer(op) ==
    /\ pending[op] > 0
    /\ pending' = [pending EXCEPT ![op] = @ - 1]

GetAreasCall ==
    /\ Await("areas")
    /\ last' = [op |-> "get_areas", phase |-> "await", vendor |-> TRUE]
    /\ UNCHANGED <<restVars, cacheVars, alarmVars, wsVars, setupVars>>

GetAreasReturn(outcome, result) ==
    /\ Answer("areas")
    /\ outcome = "ok" \/ result = None
    /\ LET r == GetAreasResult(cache["areas"], outcome, result)
       IN /\ cache' = [cache EXCEPT !["areas"] = r.cache]
          /\ last' = [op |-> "get_areas", phase |-> "return", kind |-> "areas",
                      outcome |-> outcome, got |-> result, pre |-> cache["areas"],
                      good |-> lastGood["areas"], raised |-> r.raised, ret |-> r.ret]
    /\ lastGood' = IF outcome = "ok" /\ Truthy(result)
                   THEN [lastGood EXCEPT !["areas"] = result] ELSE lastGood
    /\ UNCHANGED <<restVars, now, throttle, vendorLog, fetchLog, alarmVars, wsVars, setupVars>>

GetAreaCall(id) ==
    /\ Await("area")
    /\ last' = [op |-> "get_area", phase |-> "await", vendor |-> TRUE, id |-> id]
    /\ UNCHANGED <<restVars, cacheVars, alarmVars, wsVars, setupVars>>

GetAreaReturn(outcome, result) ==
    /\ Answer("area")
    /\ outcome = "ok" \/ result = None
    /\ LET r == GetAreaResult(outcome, result)
       IN last' = [op |-> "get_area", phase |-> "return", outcome |-> outcome,
                   got |-> result, pre |-> cache["areas"], raised |-> r.raised,
                   ret |-> r.ret]
    /\ UNCHANGED <<restVars, cacheVars, alarmVars, wsVars, setupVars>>

SetAreaStateCall(id, state) ==
    /\ Await("set_area")
    /\ last' = [op |-> "set_area_state", phase |-> "await", id |-> id, state |-> state,
                token |-> HubToken(state)]
    /\ UNCHANGED <<restVars, cacheVars, alarmVars, wsVars, setupVars>>

SetAreaStateReturn(outcome, result) ==
    /\ Answer("set_area")
    /\ outcome.exc = "ok" \/ result = None
    /\ LET r == SetAreaStateResult(outcome, result)
       IN last' = [op |-> "set_area_state", phase |-> "return", outcome |-> outcome,
                   got |-> result, raised |-> r.raised, exc |-> r.exc,
                   status |-> r.status, ret |-> r.ret]
    /\ UNCHANGED <<restVars, cacheVars, alarmVars, wsVars, setupVars>>

SetOutputStateCall(id, state) ==
    /\ Await("set_output")
    /\ last' = [op |-> "set_output_state", phase |-> "await", id |-> id, state |-> state]
    /\ UNCHANGED <<restVars, cacheVars, alarmVars, wsVars, setupVars>>

SetOutputStateReturn(outcome) ==
    /\ Answer("set_output")
    /\ LET r == SetOutputStateResult(outcome)
       IN last' = [op |-> "set_output_state", phase |-> "return", outcome |-> outcome,
                   raised |-> r.raised, ret |-> r.ret]
    /\ UNCHANGED <<restVars, cacheVars, alarmVars, wsVars, setupVars>>

\* the alarm entity's async_alarm_disarm / async_alarm_arm_home / async_alarm_arm_away
AlarmCommandCall(op) ==
    /\ Await("arm")
    /\ last' = [op |-> op, phase |-> "await", id |-> AreaId(entity.area),
                state |-> EntityOpState(op), token |-> EntityToken(EntityOpState(op))]
    /\ UNCHANGED <<restVars, cacheVars, alarmVars, wsVars, setupVars>>

AlarmCommandReturn(outcome, result) ==
    /\ Answer("arm")
    /\ outcome.exc = "ok" \/ result = None
    /\ LET r == ArmResult(entity.area, outcome, result)
       IN /\ entity' = [entity EXCEPT !.area = r.area]
          /\ last' = [op |-> "alarm_command", phase |-> "return", outcome |-> outcome,
                      got |-> result, raised |-> r.raised]
    /\ UNCHANGED <<restVars, cacheVars, wsVars, setupVars>>

\* the alarm entity's async_update, up to `await self._hub.get_area(...)`
AlarmUpdateCall ==
    /\ Await("update")
    /\ last' = [op |-> "async_update", phase |-> "await", id |-> AreaId(entity.area)]
    /\ UNCHANGED <<restVars, cacheVars, alarmVars, wsVars, setupVars>>

\* the same poll, from get_area's return to the state set
AlarmUpdateReturn(outcome, result) ==
    /\ Answer("update")
    /\ outcome = "ok" \/ result = None
    /\ LET r == GetAreaResult(outcome, result)
           area == UpdateResult(entity.area, r.ret)
       IN /\ entity' = [area |-> area, state |-> EntityState(area)]
          /\ last' = [op |-> "async_update", phase |-> "return", outcome |-> outcome,
                      got |-> result, pre |-> entity, raised |-> r.raised,
                      ret |-> r.ret, received |-> AreaState(area)]
    /\ UNCHANGED <<restVars, cacheVars, wsVars, setupVars>>

\* a call of the hub's static map_alarm_state
MapAlarmState(api_state) ==
    /\ last' = [op |-> "map_alarm_state", arg |-> api_state,
                ret |-> map_alarm_state(api_state)]
    /\ UNCHANGED <<restVars, cacheVars, pending, alarmVars, wsVars, setupVars>>

----------------------------------------------------------------------------
(* Subscriptions and the websocket handler: hub.py 187-219 *)

\* the device ids subscribers register (any str, the empty one included)
SubIds == {"", "z1", "z2"}
Callbacks == {"cbA", "cbB"}

\* the dect_interface of the info messages the handler skips
DectFiltered == 32768

\* An inbound message, by the shape the handler's lookups see:
\*   type       msg.get("type")
\*   data       "absent": no data key; "null": data is None (or no mapping); "dict"
\*   id         the same for data["_id"], "str" being a plain string
\*   device_id  data["_id"].get("device_id"), "None" when there is none
\*   dect       data["_id"].get("dect_interface")
Msg(t, data, id, dev, dect) ==
    [type |-> t, data |-> data, id |-> id, device_id |-> dev, dect |-> dect]

Messages ==
    {Msg(t, d, "absent", "None", 0) : t \in {"info", "event"}, d \in {"absent", "null"}}
    \cup {Msg(t, "dict", i, "None", 0) : t \in {"info", "event"}, i \in {"absent", "null", "str"}}
    \cup {Msg(t, "dict", "dict", dev, x) :
            t \in {"info", "event"}, dev \in {"None", "", "z1", "z9"}, x \in {DectFiltered, 1}}

\* msg.get("data", {}).get("_id", {}).get(key) raises AttributeError when data or
\* _id is present and has no get()
DigRaises(msg) ==
    \/ msg.data = "null"
    \/ msg.data = "dict" /\ msg.id \in {"null", "str"}

\* the lookup reaches an _id mapping of the message
DigReaches(msg) == msg.data = "dict" /\ msg.id = "dict"

DeviceIdOf(msg) == IF DigReaches(msg) THEN msg.device_id ELSE "None"
IsDect(msg) == DigReaches(msg) /\ msg.dect = DectFiltered

\* bool(device_id)
TruthyId(d) == d # "None" /\ d # ""

Dropped == [result |-> "dropped", to |-> "none", calls |-> 0, escaped |-> FALSE]
Filtered == [result |-> "filtered", to |-> "none", calls |-> 0, escaped |-> FALSE]
Escaped == [result |-> "raised", to |-> "none", calls |-> 0, escaped |-> TRUE]

\* ws_callback, lines 207-214: route by device_id; a callback's exception is caught
Route(msg, subs, cbRaises) ==
    IF DigRaises(msg) THEN Escaped
    ELSE LET d == DeviceIdOf(msg)
         IN IF TruthyId(d) /\ d \in DOMAIN subs
            THEN [result |-> "delivered", to |-> subs[d], calls |-> 1, escaped |-> FALSE]
            ELSE Dropped

\* ws_callback, lines 200-203: the filter; `and` evaluates the lookup only for "info"
WsCallback(msg, subs, cbRaises) ==
    IF msg.type = "info"
    THEN IF DigRaises(msg) THEN Escaped
         ELSE IF IsDect(msg) THEN Filtered
         ELSE Route(msg, subs, cbRaises)
    ELSE Route(msg, subs, cbRaises)

SubscribeDictKeepsFirst(subs, id, cb) ==
    IF id \in DOMAIN subs THEN subs
    ELSE [d \in DOMAIN subs \cup {id} |-> IF d = id THEN cb ELSE subs[d]]

\* subscribe: self._subscriptions[device_id] = callback
SubscribeDict(subs, id, cb) ==
    [d \in DOMAIN subs \cup {id} |-> IF d = id THEN cb ELSE subs[d]]

\* unsubscribe: self._subscriptions.pop(device_id, None)
UnsubscribeDict(subs, id) ==
    [raised |-> FALSE, subs |-> [d \in DOMAIN subs \ {id} |-> subs[d]]]

Subscribe(id, cb) ==
    /\ subscriptions' = SubscribeDict(subscriptions, id, cb)
    /\ regLog' = [regLog EXCEPT ![id] = cb]
    /\ last' = [op |-> "subscribe", id |-> id, cb |-> cb, pre |-> subscriptions,
                raised |-> FALSE]
    /\ UNCHANGED <<restVars, cacheVars, pending, alarmVars, setupVars>>

Unsubscribe(id) ==
    /\ LET r == UnsubscribeDict(subscriptions, id)
       IN /\ subscriptions' = r.subs
          /\ last' = [op |-> "unsubscribe", id |-> id, pre |-> subscriptions,
                      raised |-> r.raised]
    /\ regLog' = [regLog EXCEPT ![id] = "none"]
    /\ UNCHANGED <<restVars, cacheVars, pending, alarmVars, setupVars>>

\* the vendor's read loop hands one message to ws_callback
WsMessage(msg, cbRaises) ==
    /\ LET r == WsCallback(msg, subscriptions, cbRaises)
       IN last' = [op |-> "ws", msg |-> msg, result |-> r.result, to |-> r.to,
                   calls |-> r.calls, cbRaised |-> r.calls > 0 /\ cbRaises,
                   escaped |-> r.escaped]
    /\ UNCHANGED <<restVars, cacheVars, pending, alarmVars, wsVars, setupVars>>

----------------------------------------------------------------------------
(* Entry setup and unload: __init__.py 27-78, hub.py 52-55 *)

Entries == {"e1", "e2"}

\* the ws_connect() tasks of one entry the model lets run at once
MaxWsTasks == 2

\* what session.get_panel answers: a panel, or nothing
Panels == {"panel", "None"}

InitResultOnly401(outcome, panel) ==
    CASE outcome.exc = "ResponseError" ->
            IF outcome.status = 401
            THEN "ConfigEntryAuthFailed" ELSE "ConfigEntryNotReady"
      [] outcome.exc = "Exception" -> "ConfigEntryNotReady"
      [] outcome.exc = "ok" -> IF panel = "None" THEN "ConfigEntryNotReady" ELSE "ok"

\* async_setup_entry, lines 34-49: how hub.init_panel()'s end is classified
InitResult(outcome, panel) ==
    CASE outcome.exc = "ResponseError" ->
            IF outcome.status = 401 \/ outcome.status = 403
            THEN "ConfigEntryAuthFailed" ELSE "ConfigEntryNotReady"
      [] outcome.exc = "Exception" -> "ConfigEntryNotReady"
      [] outcome.exc = "ok" -> IF panel = "None" THEN "ConfigEntryNotReady" ELSE "ok"

\* async_setup_entry up to `await hub.init_panel()`; the host sets up an entry
\* that is not loaded
SetupCall(e) ==
    /\ setup[e].pc = "idle"
    /\ wsTasks[e] < MaxWsTasks
    /\ setup' = [setup EXCEPT ![e] = [pc |-> "init", result |-> "none"]]
    /\ events' = [events EXCEPT ![e] = <<>>]
    /\ last' = [op |-> "setup", phase |-> "await", entry |-> e]
    /\ UNCHANGED <<restVars, cacheVars, pending, alarmVars, wsVars, registry, wsTasks>>

\* from init_panel()'s end to the raise, or to `await async_forward_entry_setups`
SetupInitReturn(e, outcome, panel) ==
    /\ setup[e].pc = "init"
    /\ outcome.exc = "ok" \/ panel = "None"
    /\ LET r == InitResult(outcome, panel)
       IN /\ IF r = "ok"
             THEN /\ registry' = registry \cup {e}
                  /\ events' = [events EXCEPT ![e] = @ \o <<"store", "forward">>]
                  /\ setup' = [setup EXCEPT ![e] = [pc |-> "forwarding", result |-> "none"]]
             ELSE /\ setup' = [setup EXCEPT ![e] = [pc |-> "idle", result |-> r]]
                  /\ UNCHANGED <<registry, events>>
          /\ last' = [op |-> "setup", phase |-> "init", entry |-> e, outcome |-> outcome,
                      panel |-> panel, raised |-> r]
    /\ UNCHANGED <<restVars, cacheVars, pending, alarmVars, wsVars, wsTasks>>

\* the platforms are set up: create_task(hub.ws_connect()), add the listener, return True
SetupForwardReturn(e) ==
    /\ setup[e].pc = "forwarding"
    /\ wsTasks' = [wsTasks EXCEPT ![e] = @ + 1]
    /\ events' = [events EXCEPT ![e] = @ \o <<"ws_task">>]
    /\ setup' = [setup EXCEPT ![e] = [pc |-> "loaded", result |-> "ok"]]
    /\ last' = [op |-> "setup", phase |-> "done", entry |-> e]
    /\ UNCHANGED <<restVars, cacheVars, pending, alarmVars, wsVars, registry>>

\* async_unload_entry: the hub leaves the registry when the platforms unloaded
UnloadEntry(e, unload_ok) ==
    /\ setup[e].pc = "loaded"
    /\ IF unload_ok
       THEN /\ registry' = registry \ {e}
            /\ setup' = [setup EXCEPT ![e] = [pc |-> "idle", result |-> "none"]]
       ELSE /\ setup' = [setup EXCEPT ![e] = [pc |-> "failed_unload", result |-> "ok"]]
            /\ UNCHANGED registry
    /\ last' = [op |-> "unload", entry |-> e, ok |-> unload_ok]
    /\ UNCHANGED <<restVars, cacheVars, pending, alarmVars, wsVars, wsTasks, events>>

\* ws_connect() ends: session.ws_connect returned, or raised and was logged
WsTaskEnd(e) ==
    /\ wsTasks[e] > 0
    /\ wsTasks' = [wsTasks EXCEPT ![e] = @ - 1]
    /\ last' = [op |-> "ws_end", entry |-> e]
    /\ UNCHANGED <<restVars, cacheVars, pending, alarmVars, wsVars, registry, setup, events>>

\* a running ws_connect() task of the entry reads a message and hands it to
\* hub.ws_callback
WsDispatch(e) ==
    /\ wsTasks[e] > 0
    /\ last' = [op |-> "ws_dispatch", entry |-> e, pc |-> setup[e].pc,
                tasks |-> wsTasks[e]]
    /\ UNCHANGED <<restVars, cacheVars, pending, alarmVars, wsVars, setupVars>>

----------------------------------------------------------------------------
(* MAC addresses, the config flow and the entry migration:                  *)
(* config_flow.py 41-209, __init__.py 81-115                                *)

\* A string is a sequence of characters.

\* the strings a user types that are shorter than MaxShort + 1 characters
MaxShort == 2

\* re.sub(r'[:\-\s.]', '', mac): the characters the class matches
SeparatorClass == {":", "-", ".", " ", "\t"}

NotSeparator(c) == c \notin SeparatorClass

\* str.lower(), on the letters the inputs are made of
Lower(c) ==
    CASE c = "A" -> "a" [] c = "B" -> "b" [] c = "C" -> "c" [] c = "D" -> "d"
      [] c = "E" -> "e" [] c = "F" -> "f" [] c = "G" -> "g"
      [] OTHER -> c

normalize_mac_addressKeepsDot(mac) ==
    LET KeepDot(c) == c \notin (SeparatorClass \ {"."})
        stripped == SelectSeq(mac, KeepDot)
    IN [i \in 1..Len(stripped) |-> Lower(stripped[i])]

\* normalize_mac_address: strip the separators, then lower-case
normalize_mac_address(mac) ==
    LET stripped == SelectSeq(mac, NotSeparator)
    IN [i \in 1..Len(stripped) |-> Lower(stripped[i])]

\* the regex class [0-9a-f]
HexClass == {"0", "1", "2", "3", "4", "5", "6", "7", "8", "9", "a", "b", "c", "d", "e", "f"}

\* the regex repetition {12}
MacLength == 12

\* is_valid_mac: bool(re.match(r'^[0-9a-f]{12}$', normalize_mac_address(mac)))
is_valid_mac(mac) ==
    LET normalized == normalize_mac_address(mac)
    IN /\ Len(normalized) = MacLength
       /\ \A i \in 1..Len(normalized) : normalized[i] \in HexClass

\* what a user types into the panel_mac field: two addresses as they are
\* printed on a panel, each with one character inserted, replaced or removed,
\* and the short strings
PrintedMac == <<"A", "A", ":", "B", "B", ":", "C", "C", ":", "D", "D", ":", "E", "E", ":", "F", "F">>
PlainMac == <<"0", "1", "2", "3", "4", "5", "6", "7", "8", "9", "a", "f">>
InsertChars == {":", "-", ".", " ", "\t", "g", "G", "F", "0"}
ReplaceChars == {":", "-", ".", " ", "\t", "g", "G"}
ShortChars == {"a", "F", "g", ":", " ", "."}

Insert(s, i, c) == SubSeq(s, 1, i) \o <<c>> \o SubSeq(s, i + 1, Len(s))
Delete(s, i) == SubSeq(s, 1, i - 1) \o SubSeq(s, i + 1, Len(s))

Edits(s) ==
    {s} \cup {Insert(s, i, c) : i \in 0..Len(s), c \in InsertChars}
        \cup {[s EXCEPT ![i] = c] : i \in 1..Len(s), c \in ReplaceChars}
        \cup {Delete(s, i) : i \in 1..Len(s)}

MacInputs ==
    Edits(PrintedMac) \cup Edits(PlainMac)
        \cup UNION {[1..n -> ShortChars] : n \in 0..MaxShort}

\* what the user types in the flows that run next to setup and migration
TypedMacs == {PrintedMac, PlainMac, <<"g">>}

Emails == {"u1", "u2"}

\* ConfigFlow.VERSION
VERSION == 2

NoFlow == [pc |-> "none", email |-> "None", mac |-> <<>>, entry |-> <<>>]

\* async_set_unique_id(f"{email}_{panel_mac}")
UniqueId(email, mac) == <<email, "_">> \o mac

UniqueIds == {e.uid : e \in configEntries}

UserStepResultNo404(outcome, panel, configured) ==
    CASE outcome.exc = "ResponseError" ->
            IF outcome.status = 401 \/ outcome.status = 403 THEN "invalid_auth"
            ELSE "cannot_connect"
      [] outcome.exc = "Exception" -> "unknown"
      [] outcome.exc = "ok" ->
            IF panel = "None" THEN "no_panel"
            ELSE IF configured THEN "unknown"
            ELSE "create_entry"

\* async_step_user, lines 105-139: how the end of session.get_panel is classified.
\* _abort_if_unique_id_configured() raises AbortFlow inside the try block; AbortFlow
\* is an Exception, so the last handler turns it into the form error "unknown".
UserStepResult(outcome, panel, configured) ==
    CASE outcome.exc = "ResponseError" ->
            IF outcome.status = 401 \/ outcome.status = 403 THEN "invalid_auth"
            ELSE IF outcome.status = 404 THEN "no_panel"
            ELSE "cannot_connect"
      [] outcome.exc = "Exception" -> "unknown"
      [] outcome.exc = "ok" ->
            IF panel = "None" THEN "no_panel"
            ELSE IF configured THEN "unknown"
            ELSE "create_entry"

\* async_step_reauth_confirm, lines 165-198
ReauthStepResult(outcome, panel) ==
    CASE outcome.exc = "ResponseError" ->
            IF outcome.status = 401 \/ outcome.status = 403 THEN "invalid_auth"
            ELSE IF outcome.status = 404 THEN "no_panel"
            ELSE "cannot_connect"
      [] outcome.exc = "Exception" -> "unknown"
      [] outcome.exc = "ok" ->
            IF panel = "None" THEN "no_panel" ELSE "update_reload_and_abort"

\* data={CONF_EMAIL: ..., CONF_PASSWORD: ..., CONF_PANEL_MAC: self._panel_mac}
NewEntryData(email, mac) == [email |-> email, password |-> "pw", panel_mac |-> mac]

\* {**entry.data, CONF_EMAIL: ..., CONF_PASSWORD: ...}
ReauthData(data, email) ==
    [k \in DOMAIN data \cup {"email", "password"} |->
        CASE k = "email" -> email
          [] k = "password" -> "pw"
          [] OTHER -> data[k]]

\* async_step_user with user input, up to the form shown again (invalid MAC) or
\* to `await session.get_panel(self._panel_mac)`
FlowUserSubmit(email, raw_mac) ==
    /\ flow.pc \in {"none", "user_form"}
    /\ LET mac == normalize_mac_address(raw_mac)
           valid == is_valid_mac(raw_mac)
       IN /\ flow' = [pc |-> IF valid THEN "user_wait" ELSE "user_form",
                      email |-> email, mac |-> mac, entry |-> <<>>]
          /\ last' = [op |-> "flow_user", phase |-> IF valid THEN "await" ELSE "return",
                      raw |-> raw_mac, normalized |-> mac, valid |-> valid,
                      result |-> IF valid THEN "none" ELSE "invalid_mac"]
    /\ UNCHANGED <<cacheVars, pending, alarmVars, wsVars, setupVars, configEntries,
                   platformVars>>

\* the same step, from get_panel's end to the entry created or the form shown again
FlowUserReturn(outcome, panel) ==
    /\ flow.pc = "user_wait"
    /\ outcome.exc = "ok" \/ panel = "None"
    /\ LET uid == UniqueId(flow.email, flow.mac)
           r == UserStepResult(outcome, panel, uid \in UniqueIds)
       IN /\ IF r = "create_entry"
             THEN /\ configEntries' = configEntries \cup
                        {[uid |-> uid, version |-> VERSION,
                          data |-> NewEntryData(flow.email, flow.mac)]}
                  /\ flow' = NoFlow
             ELSE /\ flow' = [flow EXCEPT !.pc = "user_form"]
                  /\ UNCHANGED configEntries
          /\ last' = [op |-> "flow_user", phase |-> "return", outcome |-> outcome,
                      panel |-> panel, result |-> r, uid |-> uid,
                      normalized |-> flow.mac]
    /\ UNCHANGED <<cacheVars, pending, alarmVars, wsVars, setupVars, platformVars>>

\* async_step_reauth_confirm with user input for an entry of the current version, up
\* to `await session.get_panel(entry.data[CONF_PANEL_MAC])`; the subscript raises
\* KeyError when the entry has no panel_mac
FlowReauthSubmit(entry, email) ==
    /\ flow.pc = "none" \/ (flow.pc = "reauth_form" /\ flow.entry = entry.uid)
    /\ entry \in configEntries
    /\ entry.version = VERSION
    /\ IF "panel_mac" \in DOMAIN entry.data
       THEN /\ flow' = [pc |-> "reauth_wait", email |-> email,
                        mac |-> entry.data["panel_mac"], entry |-> entry.uid]
            /\ last' = [op |-> "flow_reauth", phase |-> "await", uid |-> entry.uid]
       ELSE /\ flow' = [pc |-> "reauth_form", email |-> email, mac |-> <<>>,
                        entry |-> entry.uid]
            /\ last' = [op |-> "flow_reauth", phase |-> "return", uid |-> entry.uid,
                        outcome |-> [exc |-> "Exception", status |-> 0],
                        panel |-> "None", result |-> "unknown"]
    /\ UNCHANGED <<cacheVars, pending, alarmVars, wsVars, setupVars, configEntries,
                   platformVars>>

\* the same step, from get_panel's end to the entry updated or the form shown again;
\* the reload the host schedules is an unload and a setup of the entry
FlowReauthReturn(outcome, panel) ==
    /\ flow.pc = "reauth_wait"
    /\ outcome.exc = "ok" \/ panel = "None"
    /\ LET r == ReauthStepResult(outcome, panel)
           entry == CHOOSE e \in configEntries : e.uid = flow.entry
       IN /\ configEntries' =
                IF r = "update_reload_and_abort"
                THEN (configEntries \ {entry}) \cup
                        {[entry EXCEPT !.data = ReauthData(entry.data, flow.email)]}
                ELSE configEntries
          /\ flow' = IF r = "update_reload_and_abort" THEN NoFlow
                     ELSE [flow EXCEPT !.pc = "reauth_form"]
          /\ last' = [op |-> "flow_reauth", phase |-> "return", uid |-> flow.entry,
                      outcome |-> outcome, panel |-> panel, result |-> r]
    /\ UNCHANGED <<cacheVars, pending, alarmVars, wsVars, setupVars, platformVars>>

RenameKeyCopies(data, old, new) ==
    IF old \in DOMAIN data /\ new \notin DOMAIN data
    THEN [k \in DOMAIN data \cup {new} |-> IF k = new THEN data[old] ELSE data[k]]
    ELSE data

\* if old in new_data and new not in new_data: new_data[new] = new_data.pop(old)
RenameKey(data, old, new) ==
    IF old \in DOMAIN data /\ new \notin DOMAIN data
    THEN [k \in (DOMAIN data \ {old}) \cup {new} |->
            IF k = new THEN data[old] ELSE data[k]]
    ELSE data

\* async_migrate_entry: the value returned and the entry as the host stores it
MigrateResult(entry) ==
    IF entry.version > VERSION THEN [ret |-> FALSE, entry |-> entry]
    ELSE IF entry.version = 1
    THEN [ret |-> TRUE,
          entry |-> [entry EXCEPT
                        !.data = RenameKey(RenameKey(@, "panel_id", "panel_mac"),
                                           "username", "email"),
                        !.version = 2]]
    ELSE [ret |-> TRUE, entry |-> entry]

\* async_migrate_entry on a stored entry.  The host calls it for an entry whose
\* version differs from VERSION; the function itself takes any entry.
MigrateEntry(entry) ==
    /\ entry \in configEntries
    /\ LET r == MigrateResult(entry)
       IN /\ configEntries' = (configEntries \ {entry}) \cup {r.entry}
          /\ last' = [op |-> "migrate", pre |-> entry, post |-> r.entry, ret |-> r.ret]
    /\ UNCHANGED <<cacheVars, pending, alarmVars, wsVars, setupVars, flow, platformVars>>

\* the entries an earlier release of the integration stored, and one stored by a
\* later release
StoredData ==
    {[panel_id |-> m, username |-> "u1", password |-> "pw"] : m \in {PrintedMac, PlainMac}}
    \cup {[panel_id |-> m, email |-> "u1", password |-> "pw"] : m \in {PrintedMac, PlainMac}}
    \cup {[panel_id |-> m, panel_mac |-> PlainMac, username |-> "u1", password |-> "pw"] :
            m \in {PrintedMac, PlainMac}}
    \cup {[panel_mac |-> PlainMac, username |-> "u1", email |-> "u2", password |-> "pw"],
          [panel_mac |-> PlainMac, email |-> "u1", password |-> "pw"]}

StoredEntries ==
    {[uid |-> <<"stored">>, version |-> 1, data |-> d] : d \in StoredData}
    \cup {[uid |-> <<"stored">>, version |-> v,
           data |-> [panel_mac |-> PlainMac, email |-> "u1", password |-> "pw"]] :
            v \in {2, 3}}

----------------------------------------------------------------------------
(* The platform entities: switch.py, binary_sensor.py, sensor.py *)

\* the values of a vendor record's fields: None, booleans, integers, strings
PyNone == [t |-> "NoneType", v |-> ""]
PyBool(b) == [t |-> "bool", v |-> IF b THEN "True" ELSE "False"]
PyInt(digits) == [t |-> "int", v |-> digits]
PyStr(chars) == [t |-> "str", v |-> chars]

\* bool(x)
PyTruthy(x) ==
    CASE x.t = "bool" -> x.v = "True"
      [] x.t = "int" -> x.v # "0"
      [] x.t = "str" -> x.v # ""
      [] OTHER -> FALSE

\* a or b
PyOr(a, b) == IF PyTruthy(a) THEN a ELSE b

\* record.get(key)
RecGet(rec, key) == IF key \in DOMAIN rec THEN rec[key] ELSE PyNone

\* str.lower(), on the words the records hold
LowerWord(w) ==
    CASE w = "ON" -> "on" [] w = "On" -> "on" [] w = "OFF" -> "off"
      [] w = "Active" -> "active" [] w = "ACTIVATED" -> "activated"
      [] w = "True" -> "true"
      [] OTHER -> w

\* const.py OUTPUT_STATE_ON
OUTPUT_STATE_ON == "on"

is_onStateOnly(data) ==
    LET state == RecGet(data, "state")
    IN CASE state.t = "bool" -> state.v = "True"
         [] state.t = "int" -> state = PyInt("1")
         [] state.t = "str" ->
                LowerWord(state.v) \in {OUTPUT_STATE_ON, "1", "true", "active", "activated"}
         [] OTHER -> FALSE

\* CrowShepherdOutputSwitch.is_on
is_on(data) ==
    LET state == PyOr(RecGet(data, "state"), RecGet(data, "status"))
    IN CASE state.t = "bool" -> state.v = "True"
         [] state.t = "int" -> state = PyInt("1")
         [] state.t = "str" ->
                LowerWord(state.v) \in {OUTPUT_STATE_ON, "1", "true", "active", "activated"}
         [] OTHER -> FALSE

Platforms == {"switch", "binary_sensor", "sensor"}

IdKeysSnakeCase(platform) ==
    CASE platform = "switch" -> <<"id", "outputId", "output_id">>
      [] platform = "binary_sensor" -> <<"id", "zoneId", "zone_id">>
      [] platform = "sensor" -> <<"id", "measurementId", "measurement_id">>

\* the keys each platform tries for a record's identifier, in order
IdKeys(platform) ==
    CASE platform = "switch" -> <<"id", "outputId", "output_id">>
      [] platform = "binary_sensor" -> <<"id", "zoneId", "zone_id">>
      [] platform = "sensor" -> <<"id", "measurementId", "_id">>

\* record.get(k1) or record.get(k2) or record.get(k3)
ResolveId(platform, rec) ==
    LET k == IdKeys(platform)
    IN PyOr(PyOr(RecGet(rec, k[1]), RecGet(rec, k[2])), RecGet(rec, k[3]))

\* async_setup_entry of a platform: for record in records: if id: entities.append(...)
AddedEntities(platform, records) ==
    {[id |-> ResolveId(platform, records[i]), data |-> records[i]] :
        i \in {j \in 1..Len(records) : PyTruthy(ResolveId(platform, records[j]))}}

\* async_update: for record in records: if id == self._id: self._data = record; break
UpdatedData(platform, e, records) ==
    LET hits == {i \in 1..Len(records) : ResolveId(platform, records[i]) = e.id}
    IN IF hits = {} THEN e.data
       ELSE records[CHOOSE i \in hits : \A j \in hits : i <= j]

\* self._output_data["state"] = True / False
WithState(data, on) ==
    [k \in DOMAIN data \cup {"state"} |-> IF k = "state" THEN PyBool(on) ELSE data[k]]

\* the values a vendor output reports as its state
StateValues ==
    {PyBool(TRUE), PyBool(FALSE), PyInt("1"), PyInt("0"), PyInt("2"),
     PyStr("on"), PyStr("ON"), PyStr("Active"), PyStr("ACTIVATED"), PyStr("off"),
     PyStr("1"), PyStr("True"), PyStr("")}

StatusValues == {PyStr("on"), PyStr("off")}

\* the output records of one output, with and without state and status
OutputRecords ==
    {[id |-> PyStr("o1")]}
    \cup {[id |-> PyStr("o1"), state |-> st] : st \in StateValues}
    \cup {[id |-> PyStr("o1"), status |-> su] : su \in StatusValues}
    \cup {[id |-> PyStr("o1"), state |-> st, status |-> su] :
            st \in StateValues, su \in StatusValues}

\* the identifier fields a vendor record may carry, under every naming
AliasValues ==
    [id |-> PyStr("x1"), outputId |-> PyStr("x2"), output_id |-> PyStr("x3"),
     zoneId |-> PyStr("x2"), zone_id |-> PyStr("x3"),
     measurementId |-> PyStr("x2"), measurement_id |-> PyStr("x3"), _id |-> PyStr("x4")]

AliasKeys(platform) ==
    CASE platform = "switch" -> {"id", "outputId", "output_id"}
      [] platform = "binary_sensor" -> {"id", "zoneId", "zone_id"}
      [] platform = "sensor" -> {"id", "measurementId", "measurement_id", "_id"}

\* the records of one kind: every choice of identifier fields, a name next to them
IdRecords(platform) ==
    {[k \in keys \cup {"name"} |-> IF k = "name" THEN PyStr("n") ELSE AliasValues[k]] :
        keys \in SUBSET AliasKeys(platform)}
    \cup {[id |-> PyInt("0"), name |-> PyStr("n")]}

\* what the hub's getter hands a platform: no record, or one
RecordLists(records) == {<<>>} \cup {<<r>> : r \in records}

\* async_setup_entry of a platform that holds no entity, given the list its hub
\* getter returned
PlatformSetup(platform, records) ==
    /\ entities[platform] = {}
    /\ entities' = [entities EXCEPT ![platform] = AddedEntities(platform, records)]
    /\ last' = [op |-> "platform_setup", platform |-> platform, records |-> records]
    /\ UNCHANGED <<cacheVars, pending, alarmVars, wsVars, setupVars, configVars>>

\* the platform's entities are removed with their entry
PlatformUnload(platform) ==
    /\ entities[platform] # {}
    /\ entities' = [entities EXCEPT ![platform] = {}]
    /\ last' = [op |-> "platform_unload", platform |-> platform]
    /\ UNCHANGED <<cacheVars, pending, alarmVars, wsVars, setupVars, configVars>>

\* an entity's async_update, given the list its hub getter returned
EntityUpdate(platform, e, records) ==
    /\ e \in entities[platform]
    /\ LET new == [e EXCEPT !.data = UpdatedData(platform, e, records)]
       IN /\ entities' = [entities EXCEPT ![platform] = (@ \ {e}) \cup {new}]
          /\ last' = [op |-> "entity_update", platform |-> platform, pre |-> e,
                      records |-> records, post |-> new]
    /\ UNCHANGED <<cacheVars, pending, alarmVars, wsVars, setupVars, configVars>>

\* the switch's async_turn_on / async_turn_off, with the hub's set_output_state
SwitchTurn(e, on, outcome) ==
    /\ e \in entities["switch"]
    /\ LET success == SetOutputStateResult(outcome).ret
           new == IF success THEN [e EXCEPT !.data = WithState(@, on)] ELSE e
       IN /\ entities' = [entities EXCEPT !["switch"] = (@ \ {e}) \cup {new}]
          /\ last' = [op |-> "switch_turn", on |-> on, success |-> success, pre |-> e,
                      post |-> new, is_on |-> is_on(new.data)]
    /\ UNCHANGED <<cacheVars, pending, alarmVars, wsVars, setupVars, configVars>>

\* the host reads the switch's is_on
SwitchIsOn(e) ==
    /\ e \in entities["switch"]
    /\ last' = [op |-> "is_on", data |-> e.data, ret |-> is_on(e.data)]
    /\ UNCHANGED <<cacheVars, pending, alarmVars, wsVars, setupVars, configVars,
                   platformVars>>

\* a float, by its shortest decimal spelling
PyFloat(digits) == [t |-> "float", v |-> digits]

\* the numbers the readings spell, as float() reads them
FloatSpelling == [n0 \in {"0", "5", "21", "21.5", "85", "85.5"} |->
    CASE n0 = "0" -> "0.0" [] n0 = "5" -> "5.0" [] n0 = "21" -> "21.0"
      [] n0 = "21.5" -> "21.5" [] n0 = "85" -> "85.0" [] n0 = "85.5" -> "85.5"]

\* float(x): TypeError for None, ValueError for a string that spells no number
FloatOf(x) ==
    CASE x.t = "int" -> [raised |-> FALSE, val |-> PyFloat(FloatSpelling[x.v])]
      [] x.t = "bool" ->
            [raised |-> FALSE, val |-> PyFloat(IF x.v = "True" THEN "1.0" ELSE "0.0")]
      [] x.t = "str" /\ x.v \in DOMAIN FloatSpelling ->
            [raised |-> FALSE, val |-> PyFloat(FloatSpelling[x.v])]
      [] OTHER -> [raised |-> TRUE, val |-> PyNone]

\* int(f), truncating
IntOf(f) ==
    CASE f.v = "0.0" -> PyInt("0") [] f.v = "1.0" -> PyInt("1") [] f.v = "5.0" -> PyInt("5")
      [] f.v \in {"21.0", "21.5"} -> PyInt("21")
      [] f.v \in {"85.0", "85.5"} -> PyInt("85")

\* str(x)
StrOf(x) == IF x.t = "NoneType" THEN PyStr("None") ELSE PyStr(x.v)

\* CrowShepherdMeasurementSensor.native_value
MeasurementValue(data) ==
    LET value == PyOr(RecGet(data, "value"), RecGet(data, "currentValue"))
    IN IF value = PyNone THEN PyNone
       ELSE IF FloatOf(value).raised THEN StrOf(value) ELSE FloatOf(value).val

\* zone.get("battery") or zone.get("batteryLevel") or zone.get("battery_level")
BatteryOf(zone) ==
    PyOr(PyOr(RecGet(zone, "battery"), RecGet(zone, "batteryLevel")),
         RecGet(zone, "battery_level"))

\* CrowShepherdZoneBatterySensor.native_value
BatteryValue(data) ==
    LET battery == BatteryOf(data)
    IN IF battery = PyNone THEN PyNone
       ELSE IF FloatOf(battery).raised THEN PyNone ELSE IntOf(FloatOf(battery).val)

\* the property the host reads, by the entity's class
native_value(e) ==
    IF e.class = "battery" THEN BatteryValue(e.data) ELSE MeasurementValue(e.data)

\* sensor.py async_setup_entry: a sensor for every measurement that has an id, then
\* a battery sensor for every zone that has an id and a battery that is not None
SensorEntities(measurements, zones) ==
    {[class |-> "measurement", id |-> ResolveId("sensor", measurements[i]),
      data |-> measurements[i]] :
        i \in {j \in 1..Len(measurements) : PyTruthy(ResolveId("sensor", measurements[j]))}}
    \cup
    {[class |-> "battery", id |-> ResolveId("binary_sensor", zones[i]), data |-> zones[i]] :
        i \in {j \in 1..Len(zones) : /\ PyTruthy(ResolveId("binary_sensor", zones[j]))
                                     /\ BatteryOf(zones[j]) # PyNone}}

\* what a measurement reports under value; under currentValue it reports 0 or 5
ValueReadings == {PyInt("0"), PyInt("21"), PyStr("21.5"), PyStr("n/a"), PyStr("")}

\* the records of one measurement, with and without value and currentValue
MeasurementRecords ==
    {[id |-> PyStr("m1")]}
    \cup {[id |-> PyStr("m1"), value |-> v] : v \in ValueReadings}
    \cup {[id |-> PyStr("m1"), currentValue |-> c] : c \in {PyInt("0"), PyInt("5")}}
    \cup {[id |-> PyStr("m1"), value |-> v, currentValue |-> c] :
            v \in ValueReadings, c \in {PyInt("0"), PyInt("5")}}

\* what a zone reports as its battery, under each of the three names
BatteryReadings == {PyInt("0"), PyInt("85"), PyStr("85.5"), PyStr("low")}

\* the records of one zone: every choice of battery fields, at most one of them
\* with a reading other than 0
ZoneRecords ==
    {[k \in keys \cup {"id"} |-> IF k = "id" THEN PyStr("z1") ELSE PyInt("0")] :
        keys \in SUBSET {"battery", "batteryLevel", "battery_level"}}
    \cup {[id |-> PyStr("z1"), battery |-> b] : b \in BatteryReadings}
    \cup {[id |-> PyStr("z1"), battery |-> PyInt("0"), batteryLevel |-> b] :
            b \in BatteryReadings}
    \cup {[id |-> PyStr("z1"), battery |-> PyInt("0"), battery_level |-> b] :
            b \in BatteryReadings}
    \cup {[name |-> PyStr("n"), battery |-> PyInt("0")]}

\* sensor.py async_setup_entry, given the lists get_measurements() and
\* get_devices() returned
SensorSetup(measurements, zones) ==
    /\ entities["sensor"] = {}
    /\ entities' = [entities EXCEPT !["sensor"] = SensorEntities(measurements, zones)]
    /\ last' = [op |-> "sensor_setup", measurements |-> measurements, zones |-> zones]
    /\ UNCHANGED <<cacheVars, pending, alarmVars, wsVars, setupVars, configVars>>

\* a sensor's async_update, given the list its hub getter returned: measurements
\* for a measurement sensor, zones for a battery sensor
SensorUpdate(e, records) ==
    /\ e \in entities["sensor"]
    /\ LET keys == IF e.class = "battery" THEN "binary_sensor" ELSE "sensor"
           new == [e EXCEPT !.data = UpdatedData(keys, e, records)]
       IN /\ entities' = [entities EXCEPT !["sensor"] = (@ \ {e}) \cup {new}]
          /\ last' = [op |-> "sensor_update", pre |-> e, records |-> records, post |-> new]
    /\ UNCHANGED <<cacheVars, pending, alarmVars, wsVars, setupVars, configVars>>

\* the host reads a sensor's native_value
SensorNativeValue(e) ==
    /\ e \in entities["sensor"]
    /\ last' = [op |-> "native_value", class |-> e.class, data |-> e.data,
                ret |-> native_value(e)]
    /\ UNCHANGED <<cacheVars, pending, alarmVars, wsVars, setupVars, configVars,
                   platformVars>>

----------------------------------------------------------------------------
(* Specifications *)

\* CrowHub.__init__, and nothing set up yet
InitHub ==
    /\ now = 0
    /\ throttle = [k \in Throttled |-> NoTime]
    /\ cache = [c \in Collections |-> None]
    /\ pending = [c \in PendingOps |-> 0]
    /\ entity = [area |-> AreaOf("a1", "disarmed"),
                 state |-> EntityState(AreaOf("a1", "disarmed"))]
    /\ subscriptions = [d \in {} |-> "none"]
    /\ registry = {}
    /\ setup = [e \in Entries |-> [pc |-> "idle", result |-> "none"]]
    /\ wsTasks = [e \in Entries |-> 0]
    /\ regLog = [d \in SubIds |-> "none"]
    /\ events = [e \in Entries |-> <<>>]
    /\ vendorLog = [c \in Collections |-> NoTime]
    /\ lastGood = [c \in Collections |-> None]
    /\ flow = NoFlow
    /\ entities = [q \in Platforms |-> {}]
    /\ last = NoCall

\* no entry is stored yet
Init == InitHub /\ configEntries = {} /\ fetchLog = [k \in Throttled |-> "unwatched"]

\* one entry is in the host's storage
InitConfig == InitHub /\ fetchLog = [k \in Throttled |-> "unwatched"] /\ \E e \in StoredEntries : configEntries = {e}

\* the throttled getters under a clock
Next ==
    \/ Tick
    \/ \E k \in Throttled : GetCall(k)
    \/ \E k \in Throttled, o \in FetchOutcomes, r \in VendorLists : GetReturn(k, o, r)

Spec == Init /\ [][Next]_vars

\* the fetches of the getters are logged from the start
InitRetry == InitHub /\ configEntries = {} /\ fetchLog = [k \in Throttled |-> "none"]

\* the throttled getters under a clock, their fetches logged
NextRetry ==
    \/ Tick
    \/ \E k \in Throttled : GetCall(k)
    \/ \E k \in Throttled, o \in FetchOutcomes, r \in {None, List(<<1>>)} : GetReturn(k, o, r)

SpecRetry == InitRetry /\ [][NextRetry]_vars

\* the areas, the commands and the alarm entity
NextAlarm ==
    \/ GetAreasCall
    \/ \E o \in FetchOutcomes, r \in VendorLists : GetAreasReturn(o, r)
    \/ \E id \in AreaIds : GetAreaCall(id)
    \/ \E o \in FetchOutcomes, r \in VendorAreas : GetAreaReturn(o, r)
    \/ \E id \in AreaIds, s \in DesiredStates : SetAreaStateCall(id, s)
    \/ \E o \in Outcomes, r \in VendorAreas : SetAreaStateReturn(o, r)
    \/ \E id \in OutputIds, s \in BOOLEAN : SetOutputStateCall(id, s)
    \/ \E o \in Outcomes : SetOutputStateReturn(o)
    \/ \E op \in EntityOps : AlarmCommandCall(op)
    \/ \E o \in Outcomes, r \in VendorAreas : AlarmCommandReturn(o, r)
    \/ AlarmUpdateCall
    \/ \E o \in FetchOutcomes, r \in PolledAreas : AlarmUpdateReturn(o, r)
    \/ \E st \in ApiStates : MapAlarmState(st)

SpecAlarm == Init /\ [][NextAlarm]_vars

\* subscribers and inbound websocket messages
NextWs ==
    \/ \E m \in Messages, x \in BOOLEAN : WsMessage(m, x)
    \/ \E id \in SubIds, cb \in Callbacks : Subscribe(id, cb)
    \/ \E id \in SubIds : Unsubscribe(id)

SpecWs == Init /\ [][NextWs]_vars

\* the config entries' setup and unload, and the config flow that creates and
\* re-authenticates entries
NextSetup ==
    \/ \E e \in Entries : SetupCall(e)
    \/ \E e \in Entries, o \in Outcomes, p \in Panels : SetupInitReturn(e, o, p)
    \/ \E e \in Entries : SetupForwardReturn(e)
    \/ \E e \in Entries, ok \in BOOLEAN : UnloadEntry(e, ok)
    \/ \E e \in Entries : WsTaskEnd(e)
    \/ \E e \in Entries : WsDispatch(e)
    \/ \E m \in Emails, raw \in TypedMacs \ {PlainMac} : FlowUserSubmit(m, raw)
    \/ \E o \in Outcomes, p \in Panels : FlowUserReturn(o, p)
    \/ \E e \in configEntries, m \in Emails : FlowReauthSubmit(e, m)
    \/ \E o \in Outcomes, p \in Panels : FlowReauthReturn(o, p)

SpecSetup == Init /\ [][NextSetup]_vars

\* the config flow's steps and the migration of stored entries
NextConfig ==
    \/ \E m \in Emails, raw \in TypedMacs : FlowUserSubmit(m, raw)
    \/ \E o \in Outcomes, p \in Panels : FlowUserReturn(o, p)
    \/ \E e \in configEntries, m \in Emails : FlowReauthSubmit(e, m)
    \/ \E o \in Outcomes, p \in Panels : FlowReauthReturn(o, p)
    \/ \E e \in configEntries : MigrateEntry(e)

SpecConfig == InitConfig /\ [][NextConfig]_vars

\* the output switch
NextSwitch ==
    \/ \E l \in RecordLists(OutputRecords) : PlatformSetup("switch", l)
    \/ PlatformUnload("switch")
    \/ \E e \in entities["switch"], l \in RecordLists(OutputRecords) :
            EntityUpdate("switch", e, l)
    \/ \E e \in entities["switch"], on \in BOOLEAN, o \in Outcomes : SwitchTurn(e, on, o)
    \/ \E e \in entities["switch"] : SwitchIsOn(e)

SpecSwitch == Init /\ [][NextSwitch]_vars

\* the three platforms that find their records by identifier
NextRecords ==
    \/ \E q \in Platforms : \E l \in RecordLists(IdRecords(q)) : PlatformSetup(q, l)
    \/ \E q \in Platforms : PlatformUnload(q)
    \/ \E q \in Platforms : \E l \in RecordLists(IdRecords(q)), e \in entities[q] :
            EntityUpdate(q, e, l)

SpecRecords == Init /\ [][NextRecords]_vars

\* the measurement sensors and the zone battery sensors
NextSensor ==
    \/ \E ms \in RecordLists(MeasurementRecords), zs \in RecordLists(ZoneRecords) :
            SensorSetup(ms, zs)
    \/ PlatformUnload("sensor")
    \/ \E e \in entities["sensor"] :
            \E l \in RecordLists(IF e.class = "battery" THEN ZoneRecords
                                  ELSE MeasurementRecords) : SensorUpdate(e, l)
    \/ \E e \in entities["sensor"] : SensorNativeValue(e)

SpecSensor == Init /\ [][NextSensor]_vars

\* the user step alone, over everything the user may type
NextMac ==
    \/ \E raw \in MacInputs : FlowUserSubmit("u1", raw)
    \/ \E o \in Outcomes, p \in Panels : FlowUserReturn(o, p)

SpecMac == Init /\ [][NextMac]_vars

----------------------------------------------------------------------------
(* The getters' caches *)

\* C1: a get_devices() / get_measurements() / get_outputs() call whose vendor
\* fetch fails (ResponseError or any other exception) does not raise, leaves the
\* cached list as it was, and returns the list cached before: the last non-empty
\* list the vendor answered, or the empty list when there is none.
C1_FailedFetchKeepsCache ==
    (last.op = "get" /\ last.phase = "return"
        /\ last.outcome \in {"ResponseError", "Exception"}) =>
        /\ ~last.raised
        /\ cache[last.kind] = last.pre
        /\ last.ret = OrEmpty(last.pre)
        /\ last.ret = IF last.good = None THEN EmptyList ELSE last.good

\* a fetch failed while a non-empty list was cached, and the call returned that list
C1_Witness ==
    /\ last.op = "get" /\ last.phase = "return" /\ last.kind = "devices"
    /\ last.outcome = "Exception"
    /\ Truthy(last.pre) /\ last.ret = last.pre

\* C2: a non-empty cached collection (devices, measurements, outputs, areas) is
\* left as it was by a fetch that succeeds with an empty list or with no value.
C2_EmptyFetchKeepsCache ==
    (last.op \in {"get", "get_areas"} /\ last.phase = "return"
        /\ last.outcome = "ok" /\ ~Truthy(last.got) /\ Truthy(last.pre)) =>
        cache[last.kind] = last.pre

\* C3: within 60 seconds of a get_devices() call that asked the vendor (30 seconds
\* for get_measurements() and get_outputs()) a call of the same getter asks the
\* vendor nothing and returns the cached list; a getter the vendor was never
\* asked by, or was asked by longer ago than its own window, asks the vendor,
\* whatever the other getters did.
C3_ThrottleWindows ==
    (last.op = "get" /\ (last.phase = "await" \/ last.outcome = "throttled")) =>
        LET w == IF last.kind = "devices" THEN 60 ELSE 30
            within == last.asked # NoTime /\ last.at - last.asked < w
            open == last.asked = NoTime \/ last.at - last.asked > w
        IN /\ within => /\ ~last.vendor
                        /\ last.phase = "return"
                        /\ ~last.raised
                        /\ last.ret = OrEmpty(last.pre)
                        /\ cache[last.kind] = last.pre
           /\ open => last.vendor

\* get_devices() 45 seconds after its last vendor fetch: no vendor call, the cached list
C3_Witness ==
    /\ last.op = "get" /\ last.kind = "devices" /\ last.phase = "return"
    /\ ~last.vendor
    /\ last.at - last.asked = 45
    /\ Truthy(last.ret)

\* C4: every get_areas() and get_area(id) call asks the vendor; neither raises;
\* when the vendor call fails get_areas() returns the cached area list (the empty
\* list if none), get_area(id) returns None, and the cached area list is as before.
C4_AreasNeverRaise ==
    /\ (last.op \in {"get_areas", "get_area"} /\ last.phase = "await") => last.vendor
    /\ (last.op = "get_areas" /\ last.phase = "return") =>
            /\ ~last.raised
            /\ last.outcome # "ok" =>
                    /\ last.ret = OrEmpty(last.pre)
                    /\ cache["areas"] = last.pre
    /\ (last.op = "get_area" /\ last.phase = "return") =>
            /\ ~last.raised
            /\ last.outcome # "ok" =>
                    /\ last.ret = None
                    /\ cache["areas"] = last.pre

\* get_areas() failed while a non-empty area list was cached, and returned that list
C4_Witness ==
    /\ last.op = "get_areas" /\ last.phase = "return"
    /\ last.outcome = "ResponseError"
    /\ Truthy(last.pre) /\ last.ret = last.pre

----------------------------------------------------------------------------
(* Commands *)

\* the token the command table documents for a desired state
DocumentedToken(s) ==
    IF s = "armed_home" THEN "stay" ELSE IF s = "armed_away" THEN "arm" ELSE "disarm"

\* C5: an area-state command sends "stay" for ARMED_HOME, "arm" for ARMED_AWAY,
\* "disarm" for DISARMED and for any other desired state; the hub's
\* set_area_state and the alarm entity's arm/disarm operations send the same
\* token for the same desired state.
C5_CommandTokens ==
    /\ (last.op \in {"set_area_state"} \cup EntityOps /\ last.phase = "await") =>
            last.token = DocumentedToken(last.state)
    /\ \A s \in DesiredStates : HubToken(s) = EntityToken(s)

\* the hub was asked for DISARMED, which is no key of SET_STATE_MAP, and sent "disarm"
C5_Witness ==
    /\ last.op = "set_area_state" /\ last.phase = "await"
    /\ last.state = "disarmed" /\ last.token = "disarm"

\* C6: set_area_state returns the vendor's result on success, returns nothing
\* without raising on a ResponseError of status 408, and re-raises every other
\* failure (a ResponseError of another status, any other exception).
C6_SetAreaState ==
    (last.op = "set_area_state" /\ last.phase = "return") =>
        CASE last.outcome.exc = "ok" -> ~last.raised /\ last.ret = last.got
          [] last.outcome.exc = "ResponseError" /\ last.outcome.status = 408 ->
                ~last.raised /\ last.ret = None
          [] OTHER ->
                /\ last.raised
                /\ last.exc = last.outcome.exc
                /\ last.status = last.outcome.status

\* the vendor answered 408 and set_area_state returned without raising
C6_Witness ==
    /\ last.op = "set_area_state" /\ last.phase = "return"
    /\ last.outcome.exc = "ResponseError" /\ last.outcome.status = 408
    /\ ~last.raised

\* C7: set_output_state never raises; it returns True exactly when the vendor
\* command ended without error, False on every failure.
C7_SetOutputState ==
    (last.op = "set_output_state" /\ last.phase = "return") =>
        /\ ~last.raised
        /\ last.ret = (last.outcome.exc = "ok")

\* the vendor command ended in an exception that is no ResponseError: False, no raise
C7_Witness ==
    /\ last.op = "set_output_state" /\ last.phase = "return"
    /\ last.outcome.exc = "Exception"
    /\ last.ret = FALSE /\ ~last.raised

----------------------------------------------------------------------------
(* The websocket handler and its subscribers *)

\* C8: an "info" message whose identifier carries dect_interface 32768 is dropped
\* even when its device id has a subscriber; any other message is delivered
\* exactly once to the callback registered for its embedded device_id, if there
\* is one, and dropped otherwise; no exception leaves the handler.
C8_Dispatch ==
    (last.op = "ws") =>
        LET m == last.msg
            carries == m.data = "dict" /\ m.id = "dict"
            skipped == m.type = "info" /\ carries /\ m.dect = 32768
            registered == carries /\ m.device_id # "None"
                            /\ m.device_id \in DOMAIN subscriptions
        IN /\ ~last.escaped
           /\ skipped => last.result = "filtered" /\ last.calls = 0
           /\ (~skipped /\ registered) =>
                    /\ last.result = "delivered"
                    /\ last.calls = 1
                    /\ last.to = subscriptions[m.device_id]
           /\ (~skipped /\ ~registered) => last.result = "dropped" /\ last.calls = 0

\* C9: each device id has at most one registered callback, the one of the most
\* recent subscribe for that id that no unsubscribe of that id followed;
\* unsubscribe of an id with no registration changes nothing and does not raise;
\* subscribe and unsubscribe leave every other id's registration as it was.
C9_Subscriptions ==
    /\ DOMAIN subscriptions \subseteq SubIds
    /\ \A d \in SubIds :
            IF regLog[d] = "none"
            THEN d \notin DOMAIN subscriptions
            ELSE d \in DOMAIN subscriptions /\ subscriptions[d] = regLog[d]
    /\ (last.op \in {"subscribe", "unsubscribe"}) =>
            /\ ~last.raised
            /\ \A d \in SubIds \ {last.id} :
                    /\ d \in DOMAIN subscriptions <=> d \in DOMAIN last.pre
                    /\ d \in DOMAIN last.pre => subscriptions[d] = last.pre[d]
    /\ (last.op = "unsubscribe" /\ last.id \notin DOMAIN last.pre) =>
            subscriptions = last.pre

\* a second subscribe for an id replaced the callback registered before
C9_Witness ==
    /\ last.op = "subscribe"
    /\ last.id \in DOMAIN last.pre
    /\ last.pre[last.id] # last.cb
    /\ subscriptions[last.id] = last.cb

----------------------------------------------------------------------------
(* Entry setup *)

IsPrefix(s, t) == Len(s) <= Len(t) /\ \A i \in 1..Len(s) : s[i] = t[i]

\* C10: an init_panel() failure with a ResponseError of status 401 or 403 fails
\* the setup as ConfigEntryAuthFailed, every other failure (another status, any
\* other exception, no panel) as ConfigEntryNotReady; a failed setup stores no
\* hub, forwards no platform and starts no websocket task; a successful one
\* stores the hub, then forwards the platforms, then starts the websocket task.
C10_SetupOutcome ==
    /\ (last.op = "setup" /\ last.phase = "init") =>
            LET o == last.outcome
                auth == o.exc = "ResponseError" /\ o.status \in {401, 403}
                fine == o.exc = "ok" /\ last.panel # "None"
            IN /\ auth => last.raised = "ConfigEntryAuthFailed"
               /\ (~auth /\ ~fine) => last.raised = "ConfigEntryNotReady"
               /\ fine => last.raised = "ok" /\ last.entry \in registry
               /\ ~fine => /\ last.entry \notin registry
                           /\ events[last.entry] = <<>>
                           /\ setup[last.entry].pc = "idle"
    /\ \A e \in Entries :
            /\ IsPrefix(events[e], <<"store", "forward", "ws_task">>)
            /\ setup[e].pc = "loaded" => events[e] = <<"store", "forward", "ws_task">>
            /\ setup[e].result \in {"ConfigEntryAuthFailed", "ConfigEntryNotReady"} =>
                    e \notin registry /\ events[e] = <<>>

\* init_panel() failed with status 403 and the setup raised ConfigEntryAuthFailed
C10_Witness ==
    /\ last.op = "setup" /\ last.phase = "init"
    /\ last.outcome.exc = "ResponseError" /\ last.outcome.status = 403
    /\ last.raised = "ConfigEntryAuthFailed"
    /\ last.entry \notin registry

----------------------------------------------------------------------------
(* The first connection, MAC addresses and stored entries *)

\* what the first connection attempt made of its failure
FirstConnection ==
    \/ last.op = "setup" /\ last.phase = "init"
    \/ last.op \in {"flow_user", "flow_reauth"} /\ last.phase = "return"
        /\ last.result # "invalid_mac"

FirstConnectionResult == IF last.op = "setup" THEN last.raised ELSE last.result

FailureClass(result) ==
    CASE result \in {"invalid_auth", "ConfigEntryAuthFailed"} -> "auth"
      [] result = "no_panel" -> "not_found"
      [] result \in {"cannot_connect", "unknown", "ConfigEntryNotReady"} -> "transient"
      [] OTHER -> "none"

DocumentedClass(outcome, panel) ==
    CASE outcome.exc = "ResponseError" ->
            IF outcome.status \in {401, 403} THEN "auth"
            ELSE IF outcome.status = 404 THEN "not_found"
            ELSE "transient"
      [] outcome.exc = "Exception" -> "transient"
      [] outcome.exc = "ok" -> IF panel = "None" THEN "not_found" ELSE "none"

\* C11 as stated: a failed first connection is classified the same way in the
\* config flow's user step, in its reauth step and in entry setup: 401/403 is an
\* authentication failure, 404 or a missing panel is a not-found failure distinct
\* from the transient ones, every other status and every other exception is
\* transient.
C11_SameTaxonomyEverywhere ==
    (FirstConnection /\ DocumentedClass(last.outcome, last.panel) # "none") =>
        FailureClass(FirstConnectionResult) = DocumentedClass(last.outcome, last.panel)

\* C11, amended: the two config flow steps classify a failed first connection as
\* invalid_auth (401/403), no_panel (404 or a missing panel), cannot_connect (any
\* other status) or unknown (any other exception); entry setup tells only 401/403
\* apart, as ConfigEntryAuthFailed, and fails with ConfigEntryNotReady on
\* everything else, a 404 and a missing panel included.
C11_FlowAndSetupTaxonomy ==
    (FirstConnection /\ DocumentedClass(last.outcome, last.panel) # "none") =>
        LET o == last.outcome
        IN IF last.op = "setup"
           THEN last.raised =
                    IF o.exc = "ResponseError" /\ o.status \in {401, 403}
                    THEN "ConfigEntryAuthFailed" ELSE "ConfigEntryNotReady"
           ELSE last.result =
                    CASE o.exc = "Exception" -> "unknown"
                      [] o.exc = "ok" -> "no_panel"
                      [] o.status \in {401, 403} -> "invalid_auth"
                      [] o.status = 404 -> "no_panel"
                      [] OTHER -> "cannot_connect"

C11_Witness ==
    /\ last.op = "setup" /\ last.phase = "init"
    /\ last.outcome.exc = "ResponseError" /\ last.outcome.status = 404
    /\ last.raised = "ConfigEntryNotReady"
    /\ \E e \in configEntries : e.version = VERSION

RECURSIVE SeparatorsRemoved(_)
SeparatorsRemoved(m) ==
    IF m = <<>> THEN <<>>
    ELSE IF Head(m) \in {":", "-", ".", " ", "\t"} THEN SeparatorsRemoved(Tail(m))
    ELSE <<Head(m)>> \o SeparatorsRemoved(Tail(m))

LowercaseOf == [A |-> "a", B |-> "b", C |-> "c", D |-> "d", E |-> "e", F |-> "f", G |-> "g"]

Lowercased(m) ==
    [i \in 1..Len(m) |-> IF m[i] \in DOMAIN LowercaseOf THEN LowercaseOf[m[i]] ELSE m[i]]

LowerHexDigits ==
    {"0", "1", "2", "3", "4", "5", "6", "7", "8", "9"} \cup {"a", "b", "c", "d", "e", "f"}

TwelveLowerHex(m) == Len(m) = 12 /\ \A i \in 1..Len(m) : m[i] \in LowerHexDigits

\* C12: normalize_mac_address(m) is m without ':', '-', '.' and whitespace, in
\* lower case; normalizing the result again changes nothing; is_valid_mac(m) holds
\* exactly when the normalized string is 12 characters, each in 0-9a-f.
C12_NormalizeAndValidate ==
    (last.op = "flow_user" /\ (last.phase = "await" \/ last.result = "invalid_mac")) =>
        /\ last.normalized = Lowercased(SeparatorsRemoved(last.raw))
        /\ normalize_mac_address(last.normalized) = last.normalized
        /\ last.valid <=> TwelveLowerHex(last.normalized)

C12_Witness ==
    /\ last.op = "flow_user" /\ last.phase = "await"
    /\ last.raw = Insert(PrintedMac, 0, ".")
    /\ last.normalized = <<"a", "a", "b", "b", "c", "c", "d", "d", "e", "e", "f", "f">>
    /\ last.valid

OtherKeysKept(pre, post, renamed) ==
    \A k \in (DOMAIN pre \cup DOMAIN post) \ renamed :
        k \in DOMAIN pre /\ k \in DOMAIN post /\ post[k] = pre[k]

\* C13 as stated: migrating a version 1 entry renames panel_id to panel_mac and
\* username to email (the old keys are gone, the values and every other key are
\* unchanged) and makes it version 2; a version 2 entry is left unchanged and the
\* migration succeeds; an entry of a version above 2 makes the migration fail and
\* is left unchanged.
C13_MigrationRenames ==
    last.op = "migrate" =>
        LET pre == last.pre
            post == last.post
        IN CASE pre.version = 1 ->
                    /\ last.ret /\ post.version = 2
                    /\ "panel_id" \notin DOMAIN post.data
                    /\ "username" \notin DOMAIN post.data
                    /\ "panel_id" \in DOMAIN pre.data =>
                            /\ "panel_mac" \in DOMAIN post.data
                            /\ post.data["panel_mac"] = pre.data["panel_id"]
                    /\ "username" \in DOMAIN pre.data =>
                            /\ "email" \in DOMAIN post.data
                            /\ post.data["email"] = pre.data["username"]
                    /\ OtherKeysKept(pre.data, post.data,
                                     {"panel_id", "panel_mac", "username", "email"})
             [] pre.version = 2 -> last.ret /\ post = pre
             [] pre.version > 2 -> ~last.ret /\ post = pre

KeyRenamed(pre, post, old, new) ==
    IF old \in DOMAIN pre /\ new \notin DOMAIN pre
    THEN /\ old \notin DOMAIN post
         /\ new \in DOMAIN post /\ post[new] = pre[old]
    ELSE /\ (old \in DOMAIN post) = (old \in DOMAIN pre)
         /\ (new \in DOMAIN post) = (new \in DOMAIN pre)
         /\ old \in DOMAIN pre => post[old] = pre[old]
         /\ new \in DOMAIN pre => post[new] = pre[new]

\* C13, amended: migrating a version 1 entry makes it version 2 and renames
\* panel_id to panel_mac when the entry has no panel_mac yet, and username to
\* email when it has no email yet (the old key is gone, the value is unchanged);
\* a key whose new name is already present stays as it is, next to the new one;
\* every other key is unchanged.  A version 2 entry is left unchanged and the
\* migration succeeds; a version above 2 makes it fail and changes nothing.
C13_MigrationRenamesWhereNewKeyAbsent ==
    last.op = "migrate" =>
        LET pre == last.pre
            post == last.post
        IN CASE pre.version = 1 ->
                    /\ last.ret /\ post.version = 2 /\ post.uid = pre.uid
                    /\ KeyRenamed(pre.data, post.data, "panel_id", "panel_mac")
                    /\ KeyRenamed(pre.data, post.data, "username", "email")
                    /\ OtherKeysKept(pre.data, post.data,
                                     {"panel_id", "panel_mac", "username", "email"})
             [] pre.version = 2 -> last.ret /\ post = pre
             [] pre.version > 2 -> ~last.ret /\ post = pre
    /\ last.op = "migrate" => last.post \in configEntries

C13_Witness ==
    /\ last.op = "migrate" /\ last.ret
    /\ last.pre.version = 1
    /\ DOMAIN last.pre.data = {"panel_id", "username", "password"}
    /\ DOMAIN last.post.data = {"panel_mac", "email", "password"}
    /\ last.post.data["panel_mac"] = last.pre.data["panel_id"]

\* C14: every version 2 config entry, whether the user step created it or the
\* migration produced it, holds a normalized panel_mac: 12 lower-case hex digits.
C14_StoredMacNormalized ==
    \A e \in configEntries :
        e.version = 2 =>
            /\ "panel_mac" \in DOMAIN e.data
            /\ TwelveLowerHex(e.data["panel_mac"])

----------------------------------------------------------------------------
(* The area state shown *)

DocumentedState(api_state) ==
    CASE api_state = "armed" -> "armed_away"
      [] api_state \in {"arm in progress", "stay arm in progress"} -> "arming"
      [] api_state = "stay_armed" -> "armed_home"
      [] api_state = "disarmed" -> "disarmed"
      [] OTHER -> "disarmed"

\* C15: the vendor's area state is shown as: armed -> armed_away, "arm in progress"
\* and "stay arm in progress" -> arming, stay_armed -> armed_home, disarmed ->
\* disarmed, any other or missing state -> disarmed; the hub's map_alarm_state and
\* the entity's HA_STATE_MAP lookup give the same state for every input.
C15_StateTranslation ==
    /\ last.op = "map_alarm_state" =>
            /\ last.ret = DocumentedState(last.arg)
            /\ last.ret = DictGet(HA_STATE_MAP, last.arg, "disarmed")
    /\ (last.op = "async_update" /\ last.phase = "return") =>
            /\ last.received = AreaState(entity.area)
            /\ entity.state = DocumentedState(last.received)
            /\ entity.state = map_alarm_state(last.received)

C15_Witness ==
    /\ last.op = "async_update" /\ last.phase = "return"
    /\ last.received = "stay arm in progress"
    /\ last.pre.state = "armed_home"
    /\ entity.state = "arming"

----------------------------------------------------------------------------
(* The output switch and the records' identifiers *)

OnWords == {"on", "active", "activated"}

DocumentedOn(data) ==
    /\ "state" \in DOMAIN data
    /\ \/ data["state"] \in {PyBool(TRUE), PyInt("1")}
       \/ data["state"].t = "str" /\ LowerWord(data["state"].v) \in OnWords

\* C16 as stated: the switch's is_on is true when the record's state is True, 1, or
\* one of "on", "active", "activated" in any letter case, and false for every other
\* state ("1" and "true" included) and for a missing state, whatever the record's
\* other fields (status among them) hold.
C16_IsOnFromStateOnly ==
    last.op = "is_on" => (last.ret <=> DocumentedOn(last.data))

EffectiveState(data) ==
    IF "state" \in DOMAIN data /\ PyTruthy(data["state"]) THEN data["state"]
    ELSE IF "status" \in DOMAIN data THEN data["status"]
    ELSE PyNone

\* C16, amended: is_on reads the record's state, or its status when the state is
\* missing or falsy (None, False, 0, ""); it is true when that value is True, the
\* integer 1, or one of "on", "1", "true", "active", "activated" in any letter
\* case, and false for every other value and when both fields are missing.
C16_IsOnFromStateOrStatus ==
    last.op = "is_on" =>
        LET x == EffectiveState(last.data)
        IN last.ret <=>
            \/ x = PyBool(TRUE)
            \/ x = PyInt("1")
            \/ x.t = "str" /\ LowerWord(x.v) \in OnWords \cup {"1", "true"}

C16_Witness ==
    /\ last.op = "is_on" /\ last.ret
    /\ last.data = [id |-> PyStr("o1"), state |-> PyBool(FALSE), status |-> PyStr("on")]

RECURSIVE FirstPresent(_, _)
FirstPresent(rec, keys) ==
    IF keys = <<>> THEN PyNone
    ELSE IF Head(keys) \in DOMAIN rec THEN rec[Head(keys)]
    ELSE FirstPresent(rec, Tail(keys))

RECURSIVE FirstTruthy(_, _)
FirstTruthy(rec, keys) ==
    IF keys = <<>> THEN PyNone
    ELSE IF Head(keys) \in DOMAIN rec /\ PyTruthy(rec[Head(keys)]) THEN rec[Head(keys)]
    ELSE FirstTruthy(rec, Tail(keys))

HasAny(rec, keys) == \E i \in 1..Len(keys) : keys[i] \in DOMAIN rec

\* C17 as stated: for zones, outputs and measurements alike a record's identifier
\* is the value of the first present key among id, the camelCase id and the
\* snake_case id (zone_id / output_id / measurement_id); a record that carries any
\* of the three yields an entity with that identifier, and the entity takes the
\* record of that identifier again on update.
C17_ThreeWayAliases ==
    /\ last.op = "platform_setup" =>
        \A i \in 1..Len(last.records) :
            LET rec == last.records[i]
                keys == IdKeysSnakeCase(last.platform)
            IN HasAny(rec, keys) =>
                [id |-> FirstPresent(rec, keys), data |-> rec] \in entities[last.platform]
    /\ last.op = "entity_update" =>
        \A i \in 1..Len(last.records) :
            LET rec == last.records[i]
                keys == IdKeysSnakeCase(last.platform)
            IN (HasAny(rec, keys) /\ FirstPresent(rec, keys) = last.pre.id) =>
                last.post.data = rec

DocumentedIdKeys(platform) ==
    IF platform = "sensor" THEN <<"id", "measurementId", "_id">>
    ELSE IdKeysSnakeCase(platform)

\* C17, amended: a record's identifier is the first truthy value among id, the
\* camelCase id (zoneId / outputId / measurementId) and a third key, which is
\* zone_id for zones, output_id for outputs and _id for measurements
\* (measurement_id is not tried); a record with such a value yields an entity with
\* that identifier, a record without one yields none, and on update the entity
\* takes the record of its identifier and keeps its own when there is none.
C17_AliasesPerKind ==
    /\ last.op = "platform_setup" =>
        \A i \in 1..Len(last.records) :
            LET rec == last.records[i]
                id == FirstTruthy(rec, DocumentedIdKeys(last.platform))
            IN IF PyTruthy(id)
               THEN [id |-> id, data |-> rec] \in entities[last.platform]
               ELSE \A e \in entities[last.platform] : e.data # rec
    /\ last.op = "entity_update" =>
        /\ last.post.id = last.pre.id
        /\ last.post \in entities[last.platform]
        /\ LET hits == {i \in 1..Len(last.records) :
                            FirstTruthy(last.records[i], DocumentedIdKeys(last.platform))
                                = last.pre.id}
           IN IF hits = {} THEN last.post.data = last.pre.data
              ELSE \E i \in hits :
                        /\ \A j \in hits : i <= j
                        /\ last.post.data = last.records[i]

C17_Witness ==
    /\ last.op = "entity_update" /\ last.platform = "binary_sensor"
    /\ DOMAIN last.pre.data = {"zoneId", "name"}
    /\ DOMAIN last.post.data = {"zoneId", "zone_id", "name"}
    /\ last.post.id = AliasValues["zoneId"]

----------------------------------------------------------------------------
(* Callers that overlap *)

\* C18: a get_devices() (get_measurements(), get_outputs()) call made while an
\* earlier call's vendor fetch is awaiting its answer returns the list that the
\* earlier call returns when its fetch completes.
C18_OverlappingCallersAgree ==
    (last.op = "get" /\ last.phase = "return" /\ last.vendor /\ last.during.called) =>
        last.during.ret = last.ret

----------------------------------------------------------------------------
(* The alarm entity's commands and the websocket task *)

\* C19: when the vendor command of the alarm entity's arm-home, arm-away or disarm
\* fails, the failure is raised to the entity's caller unless it is a ResponseError
\* with status 408, which completes without an error.
C19_EntityCommandRaises ==
    (last.op = "alarm_command" /\ last.phase = "return" /\ last.outcome.exc # "ok") =>
        (last.raised <=>
            ~(last.outcome.exc = "ResponseError" /\ last.outcome.status = 408))

\* C20: over every sequence of setups, unloads and reloads at most one websocket
\* read loop runs per config entry, and the loop of an entry dispatches messages
\* only while the entry is set up: none after async_unload_entry succeeded.
C20_OneLoopPerLoadedEntry ==
    /\ \A e \in Entries : wsTasks[e] <= 1
    /\ last.op = "ws_dispatch" => last.pc \in {"loaded", "failed_unload"}

----------------------------------------------------------------------------
(* Polls that fail *)

\* the hub's get_area gave the poll nothing, or a value that is no record
PollGotNoRecord ==
    /\ last.op = "async_update" /\ last.phase = "return"
    /\ last.ret = None \/ last.ret.t # "dict"

\* C21 as stated: when the alarm entity's async_update gets None or a non-record
\* value from the hub's get_area, it does not raise, and the entity's area record
\* and its alarm state are the same as before the update.
C21_FailedPollChangesNothing ==
    PollGotNoRecord =>
        /\ ~last.raised
        /\ entity.area = last.pre.area
        /\ entity.state = last.pre.state

\* C21, amended: when the alarm entity's async_update gets None or a non-record
\* value from the hub's get_area, it does not raise and the entity's area record
\* is the same as before; the alarm state is set to the translation of that
\* record's state, which is the state shown before unless an arm or disarm
\* command has replaced the record since the state was last set.
C21_FailedPollKeepsRecord ==
    PollGotNoRecord =>
        /\ ~last.raised
        /\ entity.area = last.pre.area
        /\ entity.state = DocumentedState(AreaState(last.pre.area))
        /\ last.pre.state = DocumentedState(AreaState(last.pre.area)) =>
                entity.state = last.pre.state

C21_Witness ==
    /\ PollGotNoRecord
    /\ last.outcome = "ResponseError"
    /\ last.pre.state = "disarmed"
    /\ entity.state = "armed_away"
    /\ entity.area = AreaOf("a1", "armed")

----------------------------------------------------------------------------
(* Commands to an output *)

\* C22: after an async_turn_on whose hub command succeeded the switch's is_on is
\* true, after an async_turn_off whose hub command succeeded it is false, whatever
\* the output's record held; when the hub command fails, the switch's record and
\* its is_on are as before.
C22_OptimisticOutputState ==
    last.op = "switch_turn" =>
        IF last.success
        THEN last.is_on = last.on
        ELSE /\ last.post = last.pre
             /\ last.is_on = is_on(last.pre.data)

----------------------------------------------------------------------------
(* Inbound messages of any shape *)

\* the message has no data, data that is no mapping, or an _id that is no mapping
Malformed(m) == m.data \in {"absent", "null"} \/ m.id \in {"absent", "null", "str"}

\* C23: the websocket message handler raises for no inbound message; a message
\* with no data field, with data that is null or no mapping, or with an _id that
\* is null or a plain string is dropped: no callback runs and no exception leaves
\* the handler.
C23_HandlerNeverRaises ==
    last.op = "ws" =>
        /\ ~last.escaped
        /\ Malformed(last.msg) => (last.result = "dropped" /\ last.calls = 0)

----------------------------------------------------------------------------
(* Retries after a failed fetch *)

\* a call of a getter whose last vendor fetch has ended in a failure
CallAfterFailure ==
    /\ last.op = "get" /\ last.prior = "failed"
    /\ last.phase = "await" \/ last.outcome = "throttled"

\* C24: a failed fetch uses up the throttle window as a successful one does: after
\* a get_devices() call whose vendor fetch failed, a get_devices() call made less
\* than 60 seconds after it asks the vendor nothing, does not raise and returns the
\* cached list as it was (the empty list if there is none); a call that asks the
\* vendor again comes no sooner than 60 seconds after the failed one. The same
\* with 30 seconds for get_measurements() and get_outputs().
C24_FailedFetchUsesWindow ==
    CallAfterFailure =>
        LET w == IF last.kind = "devices" THEN 60 ELSE 30
        IN /\ last.at - last.asked < w =>
                  /\ ~last.vendor
                  /\ last.phase = "return"
                  /\ ~last.raised
                  /\ last.ret = OrEmpty(last.pre)
                  /\ cache[last.kind] = last.pre
           /\ last.vendor => last.at - last.asked >= w

\* get_measurements() 15 seconds after the call whose fetch failed: no vendor
\* call, the list cached before the failure
C24_Witness ==
    /\ CallAfterFailure /\ last.kind = "measurements"
    /\ ~last.vendor
    /\ last.at - last.asked = 15
    /\ Truthy(last.ret)

----------------------------------------------------------------------------
(* Readings of 0 *)

\* the zones of the list that have an id and report a battery of 0
ZonesAtZero(zones) ==
    {i \in 1..Len(zones) : /\ PyTruthy(ResolveId("binary_sensor", zones[i]))
                           /\ RecGet(zones[i], "battery") = PyInt("0")}

\* C25: a numeric reading of 0 that is present is reported as 0 and never taken
\* for a missing one: a measurement record whose value field is 0 has the
\* native_value 0 (not None, not another field's value); a zone whose battery
\* field is 0 gets a battery sensor, and that sensor's native_value is 0.
C25_ZeroIsAReading ==
    /\ (last.op = "native_value" /\ last.class = "measurement"
            /\ RecGet(last.data, "value") = PyInt("0")) => last.ret = PyFloat("0.0")
    /\ last.op = "sensor_setup" =>
            \A i \in ZonesAtZero(last.zones) :
                \E e \in entities["sensor"] : e.class = "battery" /\ e.data = last.zones[i]
    /\ (last.op = "native_value" /\ last.class = "battery"
            /\ RecGet(last.data, "battery") = PyInt("0")) => last.ret = PyInt("0")

====
